---- MODULE Spec2Model ----
(***************************************************************************)
(* Record lifecycle and comparator-based ordering                          *)
(* (tools/convert_tests/scenarios/c_to_cpp_basic/source_repo/main.c).      *)
(*                                                                         *)
(* The heap is a finite set of blocks, each "absent" (never allocated),    *)
(* "live" or "released".  A pointer is an integer: NULL, a heap block, or  *)
(* the address of an element of main's local array items[].                *)
(* A char is its code (0 is the terminator); a name buffer is the 50 chars *)
(* of Item.name; a float value is counted in quarters (42.5 is 170), all   *)
(* of which a float holds exactly and "%.2f" prints exactly.               *)
(***************************************************************************)
EXTENDS Integers, Sequences, FiniteSets, TLC

VARIABLES
    status,     \* heap block -> "absent" | "live" | "released"
    mem,        \* heap block -> the Item stored in it
    stdout,     \* the lines written so far
    fault,      \* "none", or the undefined behaviour that has happened
    last_call,  \* history: the most recent call of the Record API
    ncalls,     \* history: how many calls of the Record API were made
    printed,    \* history: heap block -> the lines printed for it since create
    pc,         \* main: the statement about to run
    my_item,    \* main: Item* my_item
    items,      \* main: Item items[3] (also the array handed to qsort)
    loop_i,     \* main: the for loop's i
    sort_pc,    \* qsort: "idle" | "outer" | "inner" | "done"
    sort_i,     \* qsort: the element being inserted
    sort_j,     \* qsort: where it currently is
    input,      \* history: the array as it was handed to qsort
    arg_a,      \* comparator harness: the Record a
    arg_b,      \* comparator harness: the Record b
    ret_ab,     \* comparator harness: what compare_items(a, b) returned
    ret_ba      \* comparator harness: what compare_items(b, a) returned

histVars == <<last_call, ncalls, printed>>
apiVars  == <<status, mem, stdout, fault, last_call, ncalls, printed>>
mainVars == <<pc, my_item, items, loop_i>>
sortVars == <<sort_pc, sort_i, sort_j, input>>
cmpVars  == <<arg_a, arg_b, ret_ab, ret_ba>>
vars == <<status, mem, stdout, fault, last_call, ncalls, printed,
          pc, my_item, items, loop_i, sort_pc, sort_i, sort_j, input,
          arg_a, arg_b, ret_ab, ret_ba>>

----------------------------------------------------------------------------
(* Bounds of the model *)

\* width of the model's int, in bits (the program's int has 32)
IntBits == 4
\* number of heap blocks malloc can hand out
HeapSize == 4
\* longest name given to create_item in the construction harness
MaxNameLen == 52
\* number of distinct names of each length
NamePatterns == 2
\* API calls made by the lifecycle harness
MaxCalls == 4
\* longest array handed to the sort harness
MaxN == 3

----------------------------------------------------------------------------
(* The int type *)

RECURSIVE Pow2(_)
Pow2(n) == IF n = 0 THEN 1 ELSE 2 * Pow2(n - 1)

INT_MAX == Pow2(IntBits - 1) - 1
INT_MIN == 0 - Pow2(IntBits - 1)
IntRange == INT_MIN..INT_MAX

\* two's complement wrap-around of a mathematical integer
Wrap(x) == ((x - INT_MIN) % Pow2(IntBits)) + INT_MIN

\* what evaluating an int expression can do: give a value, or abort the program
Ret(v) == [kind |-> "ret", val |-> v]
Trap == [kind |-> "trap", val |-> 0]

\* a - b on ints: the difference when it is representable.  Signed overflow is
\* undefined: the build either wraps around (plain two's complement code) or
\* aborts (overflow trapping).
IntSub(a, b) ==
    IF (a - b) \in IntRange THEN {Ret(a - b)} ELSE {Ret(Wrap(a - b)), Trap}

----------------------------------------------------------------------------
(* Item, pointers *)

Capacity == 50

NULL == 0
Addr == 1..HeapSize
\* &items[i], i counted from 0
ItemsAddr(i) == HeapSize + 1 + i

ZeroBuf == [i \in 1..Capacity |-> 0]
FullBuf == [i \in 1..Capacity |-> 63]

\* what a block holds before anything was stored in it
Indeterminate == [id |-> 0, name |-> ZeroBuf, value |-> 0]
\* contents malloc's block may have: malloc does not initialise it
GarbageItems == {Indeterminate, [id |-> INT_MAX, name |-> FullBuf, value |-> 1]}

\* the C string a buffer holds: the chars before the first terminator
HasTerminator(buf) == \E i \in 1..Len(buf) : buf[i] = 0
StrLen(buf) ==
    IF HasTerminator(buf)
    THEN (CHOOSE i \in 1..Len(buf) :
              buf[i] = 0 /\ \A k \in 1..(i - 1) : buf[k] # 0) - 1
    ELSE Len(buf)
CStr(buf) == SubSeq(buf, 1, StrLen(buf))

Min(a, b) == IF a < b THEN a ELSE b

\* strncpy(dest, src, n): the first n chars of dest become src's chars, then
\* terminators up to n; the chars after n stay
strncpy(dest, src, n) ==
    [i \in 1..Len(dest) |->
        IF i > n THEN dest[i]
        ELSE IF i <= Len(src) THEN src[i] ELSE 0]

\* the off-by-one: strncpy over the whole buffer, no terminator written after it
StoreNameNoTerminator(buf, name) == strncpy(buf, name, Capacity)

\* main.c 51-52: strncpy(item->name, name, sizeof(item->name) - 1);
\*               item->name[sizeof(item->name) - 1] = '\0';
StoreName(buf, name) ==
    [strncpy(buf, name, Capacity - 1) EXCEPT ![Capacity] = 0]

\* create_item that forgets item->value = value
InitItemNoValue(block, id, name, value) ==
    [id |-> id, name |-> StoreName(block.name, name), value |-> block.value]

\* main.c 50-53: the three stores of create_item into the malloc'ed block
InitItem(block, id, name, value) ==
    [id |-> id, name |-> StoreName(block.name, name), value |-> value]

----------------------------------------------------------------------------
(* printf("ID: %d, Name: %s, Value: %.2f\n", ...) *)

\* the chars of a string literal, as codes
Text(str) ==
    CASE str = "ID: "      -> <<73, 68, 58, 32>>
      [] str = ", Name: "  -> <<44, 32, 78, 97, 109, 101, 58, 32>>
      [] str = ", Value: " -> <<44, 32, 86, 97, 108, 117, 101, 58, 32>>
      [] str = "-"         -> <<45>>
      [] str = "."         -> <<46>>
      [] str = "Test Item" -> <<84, 101, 115, 116, 32, 73, 116, 101, 109>>
      [] str = "Third"     -> <<84, 104, 105, 114, 100>>
      [] str = "First"     -> <<70, 105, 114, 115, 116>>
      [] str = "Second"    -> <<83, 101, 99, 111, 110, 100>>
      [] str = "C to C++ Conversion Test" ->
             <<67, 32, 116, 111, 32, 67, 43, 43, 32, 67, 111, 110, 118, 101, 114, 115, 105, 111, 110, 32, 84, 101, 115, 116>>
      \* "\nSorted items:": a line break, then the heading
      [] str = "Sorted items:" -> <<10, 83, 111, 114, 116, 101, 100, 32, 105, 116, 101, 109, 115, 58>>

Digit(d) == 48 + d

RECURSIVE Digits(_)
Digits(n) ==
    IF n < 10 THEN <<Digit(n)>> ELSE Append(Digits(n \div 10), Digit(n % 10))

\* %d
FormatInt(n) == IF n < 0 THEN Text("-") \o Digits(0 - n) ELSE Digits(n)

\* %.2f of a value counted in quarters
FormatFloat(v) ==
    LET a == IF v < 0 THEN 0 - v ELSE v
        cents == (a % 4) * 25
    IN  (IF v < 0 THEN Text("-") ELSE <<>>)
        \o Digits(a \div 4) \o Text(".")
        \o <<Digit(cents \div 10), Digit(cents % 10)>>

\* main.c 60: the line print_item writes (without its line break)
FormatItem(item) ==
    Text("ID: ") \o FormatInt(item.id) \o Text(", Name: ") \o CStr(item.name)
    \o Text(", Value: ") \o FormatFloat(item.value)

----------------------------------------------------------------------------
(* The Record API *)

\* what a pointer points to
Deref(p) == IF p \in Addr THEN mem[p] ELSE items[p - HeapSize]

NotLive == {a \in Addr : status[a] # "live"}

\* malloc(sizeof(Item)): NULL, or a block that is not live.  Blocks are
\* interchangeable, so the lowest one stands for any of them; it is a fresh
\* block at first and a released one after a free.
Malloc ==
    {NULL} \cup (IF NotLive = {} THEN {}
                 ELSE {CHOOSE a \in NotLive : \A b \in NotLive : a <= b})

Call(op, p, id, name, value) ==
    [op |-> op, ptr |-> p, id |-> id, name |-> name, value |-> value]
NoCall == Call("none", NULL, 0, <<>>, 0)

\* main.c 47-56
create_item(id, name, value) ==
    \E p \in Malloc, g \in GarbageItems :
        /\ IF p # NULL
           THEN /\ status' = [status EXCEPT ![p] = "live"]
                /\ mem' = [mem EXCEPT ![p] = InitItem(g, id, name, value)]
                /\ printed' = [printed EXCEPT ![p] = <<>>]
           ELSE UNCHANGED <<status, mem, printed>>
        /\ last_call' = Call("create_item", p, id, name, value)
        /\ ncalls' = ncalls + 1
        /\ UNCHANGED <<stdout, fault>>

\* print_item without its null check: the handle is read through as it is
print_item_unchecked(p) ==
    /\ fault' = IF p = NULL THEN "null_deref" ELSE fault
    /\ stdout' = Append(stdout,
                        FormatItem(IF p = NULL THEN Indeterminate ELSE Deref(p)))
    /\ printed' = IF p \in Addr
                  THEN [printed EXCEPT ![p] = Append(@, FormatItem(mem[p]))]
                  ELSE printed
    /\ last_call' = Call("print_item", p, 0, <<>>, 0)
    /\ ncalls' = ncalls + 1
    /\ UNCHANGED <<status, mem>>

\* print_item that also cuts the record's name short while printing it
print_item_writes(p) ==
    /\ IF p # NULL
       THEN /\ stdout' = Append(stdout, FormatItem(Deref(p)))
            /\ IF p \in Addr
               THEN /\ printed' = [printed EXCEPT ![p] = Append(@, FormatItem(mem[p]))]
                    /\ mem' = [mem EXCEPT ![p].name = ZeroBuf]
                    /\ fault' = IF status[p] = "live" THEN fault ELSE "use_after_free"
               ELSE UNCHANGED <<printed, mem, fault>>
       ELSE UNCHANGED <<stdout, printed, mem, fault>>
    /\ last_call' = Call("print_item", p, 0, <<>>, 0)
    /\ ncalls' = ncalls + 1
    /\ UNCHANGED status

\* main.c 58-62
print_item(p) ==
    /\ IF p # NULL
       THEN /\ stdout' = Append(stdout, FormatItem(Deref(p)))
            /\ IF p \in Addr
               THEN /\ printed' = [printed EXCEPT ![p] = Append(@, FormatItem(mem[p]))]
                    /\ fault' = IF status[p] = "live" THEN fault ELSE "use_after_free"
               ELSE UNCHANGED <<printed, fault>>
       ELSE UNCHANGED <<stdout, printed, fault>>
    /\ last_call' = Call("print_item", p, 0, <<>>, 0)
    /\ ncalls' = ncalls + 1
    /\ UNCHANGED <<status, mem>>

\* main.c 64-68
free_item(p) ==
    /\ IF p # NULL
       THEN IF p \in Addr /\ status[p] = "live"
            THEN /\ status' = [status EXCEPT ![p] = "released"]
                 /\ UNCHANGED fault
            ELSE /\ fault' = "bad_free"
                 /\ UNCHANGED status
       ELSE UNCHANGED <<status, fault>>
    /\ last_call' = Call("free_item", p, 0, <<>>, 0)
    /\ ncalls' = ncalls + 1
    /\ UNCHANGED <<mem, stdout, printed>>

----------------------------------------------------------------------------
(* The comparator and the sort *)

\* a comparator that answers whether a.id > b.id
compare_items_greater(a, b) == {Ret(IF a.id > b.id THEN 1 ELSE 0)}

\* main.c 70-74: return item_a->id - item_b->id;
compare_items(a, b) == IntSub(a.id, b.id)

\* Item's members in storage order, and its size counted in members
Members == <<"id", "name", "value">>
SizeofItem == 3

\* qsort told that an element is as large as Item's first member only
SortElemSizeOfId == SizeofItem - 2

\* main.c 33: the element size handed to qsort, sizeof(Item)
SortElemSize == SizeofItem

\* the first size members of x, the rest of y
Overlay(x, y, size) ==
    [f \in {"id", "name", "value"} |->
        IF \E k \in 1..Min(size, Len(Members)) : Members[k] = f THEN x[f] ELSE y[f]]

\* the array with the first size members of elements i and j exchanged
Swap(arr, i, j, size) ==
    [arr EXCEPT ![i] = Overlay(arr[j], arr[i], size),
                ![j] = Overlay(arr[i], arr[j], size)]

\* qsort(items, n, size, compare_items) is entered
QsortCall ==
    /\ sort_pc = "idle"
    /\ sort_pc' = "run"
    /\ input' = items
    /\ sort_i' = 2
    /\ sort_j' = 2
    /\ UNCHANGED items

\* one call of the comparator on neighbours, and the exchange it asks for:
\* element sort_i is moved left until its left neighbour is not greater
QsortCompare ==
    /\ sort_pc = "run"
    /\ sort_i <= Len(items)
    /\ \E r \in compare_items(items[sort_j - 1], items[sort_j]) :
          IF r.kind = "trap"
          THEN /\ sort_pc' = "aborted"
               /\ UNCHANGED <<items, sort_i, sort_j>>
          ELSE /\ sort_pc' = sort_pc
               /\ items' = IF r.val > 0
                           THEN Swap(items, sort_j - 1, sort_j, SortElemSize)
                           ELSE items
               /\ IF r.val > 0 /\ sort_j > 2
                  THEN sort_j' = sort_j - 1 /\ sort_i' = sort_i
                  ELSE sort_j' = sort_i + 1 /\ sort_i' = sort_i + 1
    /\ UNCHANGED input

\* qsort returns
QsortReturn ==
    /\ sort_pc = "run"
    /\ sort_i > Len(items)
    /\ sort_pc' = "done"
    /\ UNCHANGED <<items, sort_i, sort_j, input>>

----------------------------------------------------------------------------
(* Initial values *)

InitHeap ==
    /\ status = [a \in Addr |-> "absent"]
    /\ mem = [a \in Addr |-> Indeterminate]

InitApi ==
    /\ stdout = <<>>
    /\ fault = "none"
    /\ last_call = NoCall
    /\ ncalls = 0
    /\ printed = [a \in Addr |-> <<>>]

InitMainIdle ==
    /\ pc = "idle"
    /\ my_item = NULL
    /\ items = <<>>
    /\ loop_i = 0

InitSortIdle ==
    /\ sort_pc = "idle"
    /\ sort_i = 0
    /\ sort_j = 0
    /\ input = <<>>

InitCmpIdle ==
    /\ arg_a = Indeterminate
    /\ arg_b = Indeterminate
    /\ ret_ab = <<>>
    /\ ret_ba = <<>>

----------------------------------------------------------------------------
(* Construction harness: one create_item call, any arguments *)

\* a name of length len: chars are never the terminator
NameOf(len, k) == [i \in 1..len |-> 97 + ((i * k) % 26)]
CreateNames == {NameOf(len, k) : len \in 0..MaxNameLen, k \in 1..NamePatterns}
CreateIds == {INT_MIN, 1, INT_MAX}
\* 42.5, 1.0, 0.25
Values == {170, 4, 1}

\* a record created earlier: create_item(1, "Test Item", 42.5)
TestItem == InitItem(Indeterminate, 1, Text("Test Item"), 170)

InitCreate ==
    /\ \/ InitHeap
       \/ /\ status = [a \in Addr |-> IF a = 1 THEN "live" ELSE "absent"]
          /\ mem = [a \in Addr |-> IF a = 1 THEN TestItem ELSE Indeterminate]
    /\ InitApi
    /\ InitMainIdle /\ InitSortIdle /\ InitCmpIdle

NextCreate ==
    /\ ncalls = 0
    /\ \E id \in CreateIds, name \in CreateNames, value \in Values :
           create_item(id, name, value)
    /\ UNCHANGED <<mainVars, sortVars, cmpVars>>

SpecCreate == InitCreate /\ [][NextCreate]_vars

----------------------------------------------------------------------------
(* Lifecycle harness: a caller that keeps the contract, passing only absent *)
(* (NULL) or live handles                                                   *)

LifeNames == {Text("Test Item"), NameOf(MaxNameLen, 1)}
LifeValues == {170}
Live == {a \in Addr : status[a] = "live"}

InitLife ==
    /\ InitHeap /\ InitApi
    /\ InitMainIdle /\ InitSortIdle /\ InitCmpIdle

LifeCreate ==
    /\ ncalls < MaxCalls
    /\ \E name \in LifeNames, value \in LifeValues : create_item(1, name, value)
    /\ UNCHANGED <<mainVars, sortVars, cmpVars>>

LifePrint ==
    /\ ncalls < MaxCalls
    /\ \E p \in {NULL} \cup Live : print_item(p)
    /\ UNCHANGED <<mainVars, sortVars, cmpVars>>

LifeFree ==
    /\ ncalls < MaxCalls
    /\ \E p \in {NULL} \cup Live : free_item(p)
    /\ UNCHANGED <<mainVars, sortVars, cmpVars>>

NextLife == LifeCreate \/ LifePrint \/ LifeFree

SpecLife == InitLife /\ [][NextLife]_vars

----------------------------------------------------------------------------
(* Comparator harness: compare_items(a, b) and compare_items(b, a) for any *)
(* two Records                                                             *)

Record(id, name, value) == InitItem(Indeterminate, id, name, value)

InitCompare ==
    /\ arg_a \in {Record(id, Text("First"), 4) : id \in IntRange}
    /\ arg_b \in {Record(id, Text("Second"), 8) : id \in IntRange}
    /\ ret_ab = <<>>
    /\ ret_ba = <<>>
    /\ InitHeap /\ InitApi /\ InitMainIdle /\ InitSortIdle

CompareAB ==
    /\ ret_ab = <<>>
    /\ \E r \in compare_items(arg_a, arg_b) : ret_ab' = <<r>>
    /\ UNCHANGED <<arg_a, arg_b, ret_ba, apiVars, mainVars, sortVars>>

CompareBA ==
    /\ ret_ba = <<>>
    /\ \E r \in compare_items(arg_b, arg_a) : ret_ba' = <<r>>
    /\ UNCHANGED <<arg_a, arg_b, ret_ab, apiVars, mainVars, sortVars>>

NextCompare == CompareAB \/ CompareBA

SpecCompare == InitCompare /\ [][NextCompare]_vars

----------------------------------------------------------------------------
(* Sort harness: qsort with compare_items over any array of Records *)

SortIds == {INT_MIN, 0 - 1, 1, 2, INT_MAX}
SortItems ==
    {Record(id, Text("First"), 4) : id \in SortIds}
    \cup {Record(id, Text("Second"), 8) : id \in SortIds}

RECURSIVE Arrays(_)
Arrays(n) ==
    IF n = 0 THEN {<<>>}
    ELSE Arrays(n - 1)
         \cup {Append(a, x) : a \in {b \in Arrays(n - 1) : Len(b) = n - 1},
                              x \in SortItems}

InitSort ==
    /\ items \in Arrays(MaxN)
    /\ pc = "idle" /\ my_item = NULL /\ loop_i = 0
    /\ InitSortIdle
    /\ InitHeap /\ InitApi /\ InitCmpIdle

SortCall == QsortCall /\ UNCHANGED <<apiVars, pc, my_item, loop_i, cmpVars>>
SortCompare == QsortCompare /\ UNCHANGED <<apiVars, pc, my_item, loop_i, cmpVars>>
SortReturn == QsortReturn /\ UNCHANGED <<apiVars, pc, my_item, loop_i, cmpVars>>

NextSort == SortCall \/ SortCompare \/ SortReturn

SpecSort == InitSort /\ [][NextSort]_vars

----------------------------------------------------------------------------
(* main(), statement by statement; pc names the line about to run *)

\* main.c 28-30: the arguments of the three create_item calls
FillArgs ==
    <<[id |-> 3, name |-> Text("Third"), value |-> 12],
      [id |-> 1, name |-> Text("First"), value |-> 4],
      [id |-> 2, name |-> Text("Second"), value |-> 8]>>
FillLines == <<"L28", "L29", "L30">>
DerefLines == <<"L28_deref", "L29_deref", "L30_deref">>
AfterFill == <<"L29", "L30", "L33">>

InitMain ==
    /\ pc = "L20"
    /\ my_item = NULL
    /\ items \in [1..3 -> GarbageItems]
    /\ loop_i = 0
    /\ InitHeap /\ InitApi /\ InitSortIdle /\ InitCmpIdle

\* main.c 20
MainBanner ==
    /\ pc = "L20"
    /\ stdout' = Append(stdout, Text("C to C++ Conversion Test"))
    /\ pc' = "L23"
    /\ UNCHANGED <<status, mem, fault, histVars, my_item, items, loop_i,
                   sortVars, cmpVars>>

\* main.c 23
MainCreate ==
    /\ pc = "L23"
    /\ create_item(1, Text("Test Item"), 170)
    /\ my_item' = last_call'.ptr
    /\ pc' = "L24"
    /\ UNCHANGED <<items, loop_i, sortVars, cmpVars>>

\* main.c 24
MainPrint ==
    /\ pc = "L24"
    /\ print_item(my_item)
    /\ pc' = "L28"
    /\ UNCHANGED <<my_item, items, loop_i, sortVars, cmpVars>>

\* main.c 28-30, the call: create_item(...) returns a pointer
MainFillCall ==
    \E k \in 1..3 :
        /\ pc = FillLines[k]
        /\ create_item(FillArgs[k].id, FillArgs[k].name, FillArgs[k].value)
        /\ pc' = DerefLines[k]
        /\ UNCHANGED <<my_item, items, loop_i, sortVars, cmpVars>>

\* main.c 28-30, the copy: items[k] = *(the pointer returned).  Reading
\* through NULL is undefined: the program is killed, or goes on with whatever
\* the read gave.
MainFillCopy ==
    \E k \in 1..3 :
        /\ pc = DerefLines[k]
        /\ IF last_call.ptr # NULL
           THEN /\ items' = [items EXCEPT ![k] = mem[last_call.ptr]]
                /\ pc' = AfterFill[k]
                /\ UNCHANGED fault
           ELSE /\ fault' = "null_deref"
                /\ \/ pc' = "killed" /\ UNCHANGED items
                   \/ \E g \in GarbageItems :
                          /\ items' = [items EXCEPT ![k] = g]
                          /\ pc' = AfterFill[k]
        /\ UNCHANGED <<status, mem, stdout, histVars, my_item, loop_i,
                       sortVars, cmpVars>>

\* main.c 33: qsort(items, 3, sizeof(Item), compare_items), step by step
MainQsortCall ==
    /\ pc = "L33"
    /\ QsortCall
    /\ UNCHANGED <<apiVars, pc, my_item, loop_i, cmpVars>>

MainQsortCompare ==
    /\ pc = "L33"
    /\ QsortCompare
    /\ pc' = IF sort_pc' = "aborted" THEN "killed" ELSE pc
    /\ UNCHANGED <<apiVars, my_item, loop_i, cmpVars>>

MainQsortReturn ==
    /\ pc = "L33"
    /\ QsortReturn
    /\ pc' = "L35"
    /\ UNCHANGED <<apiVars, my_item, loop_i, cmpVars>>

\* main.c 35-36: the heading, and the loop's i = 0
MainHeading ==
    /\ pc = "L35"
    /\ stdout' = Append(stdout, Text("Sorted items:"))
    /\ loop_i' = 0
    /\ pc' = "L36"
    /\ UNCHANGED <<status, mem, fault, histVars, my_item, items,
                   sortVars, cmpVars>>

\* main.c 36-38: one round of the loop
MainLoopPrint ==
    /\ pc = "L36"
    /\ loop_i < 3
    /\ print_item(ItemsAddr(loop_i))
    /\ loop_i' = loop_i + 1
    /\ UNCHANGED <<pc, my_item, items, sortVars, cmpVars>>

\* main.c 36: the loop ends
MainLoopExit ==
    /\ pc = "L36"
    /\ ~(loop_i < 3)
    /\ pc' = "L41"
    /\ UNCHANGED <<apiVars, my_item, items, loop_i, sortVars, cmpVars>>

\* main.c 41
MainFree ==
    /\ pc = "L41"
    /\ free_item(my_item)
    /\ pc' = "L43"
    /\ UNCHANGED <<my_item, items, loop_i, sortVars, cmpVars>>

\* main.c 43
MainReturn ==
    /\ pc = "L43"
    /\ pc' = "done"
    /\ UNCHANGED <<apiVars, my_item, items, loop_i, sortVars, cmpVars>>

NextMain ==
    \/ MainBanner \/ MainCreate \/ MainPrint
    \/ MainFillCall \/ MainFillCopy
    \/ MainQsortCall \/ MainQsortCompare \/ MainQsortReturn
    \/ MainHeading \/ MainLoopPrint \/ MainLoopExit
    \/ MainFree \/ MainReturn

SpecMain == InitMain /\ [][NextMain]_vars

----------------------------------------------------------------------------
(* Properties *)

\* the first n chars of a name
Prefix(name, n) == SubSeq(name, 1, Min(Len(name), n))

ApiCall(op) == ncalls' = ncalls + 1 /\ last_call'.op = op

Sign(x) == IF x < 0 THEN 0 - 1 ELSE IF x > 0 THEN 1 ELSE 0

\* C1: compare_items(a, b) returns a negative int when a.id < b.id, zero when
\* the ids are equal and a positive int when a.id > b.id, for all int ids.
C1_ThreeWay ==
    ret_ab # <<>> =>
        /\ ret_ab[1].kind = "ret"
        /\ Sign(ret_ab[1].val) = Sign(arg_a.id - arg_b.id)

\* C2: when both calls return, compare_items(a, b) is the negation (an int,
\* so modulo 2^IntBits) of compare_items(b, a) when the ids differ, and
\* compare_items(a, b) is zero exactly when the ids are equal.
C2_Antisymmetric ==
    (/\ ret_ab # <<>> /\ ret_ab[1].kind = "ret"
     /\ ret_ba # <<>> /\ ret_ba[1].kind = "ret") =>
        /\ arg_a.id # arg_b.id => ret_ab[1].val = Wrap(0 - ret_ba[1].val)
        /\ ret_ab[1].val = 0 <=> arg_a.id = arg_b.id

\* C2 witness: both calls returned for INT_MIN against a positive id, where
\* the subtraction overflows
C2_Witness ==
    /\ ret_ab # <<>> /\ ret_ab[1].kind = "ret"
    /\ ret_ba # <<>> /\ ret_ba[1].kind = "ret"
    /\ arg_a.id = INT_MIN
    /\ arg_b.id = 1

Ids(arr) == [k \in 1..Len(arr) |-> arr[k].id]
NonDecreasing(seq) == \A k \in 1..(Len(seq) - 1) : seq[k] <= seq[k + 1]

\* C3: when qsort with compare_items has returned, the ids of the array are
\* non-decreasing from left to right.
C3_SortedById == sort_pc = "done" => NonDecreasing(Ids(items))

Count(x, arr) == Cardinality({k \in 1..Len(arr) : arr[k] = x})
IsPermutation(a, b) ==
    /\ Len(a) = Len(b)
    /\ \A k \in 1..Len(b) : Count(b[k], a) = Count(b[k], b)

C4_NameTruncated ==
    (last_call.op = "create_item" /\ last_call.ptr # NULL) =>
        LET stored == mem[last_call.ptr].name
        IN  /\ Len(stored) = Capacity
            /\ HasTerminator(stored)
            /\ StrLen(stored) = Min(Len(last_call.name), Capacity - 1)
            /\ CStr(stored) = Prefix(last_call.name, Capacity - 1)

\* C4 witness: a name longer than the storage was given and the call succeeded
C4_Witness ==
    /\ last_call.op = "create_item"
    /\ last_call.ptr # NULL
    /\ Len(last_call.name) > Capacity
    /\ StrLen(mem[last_call.ptr].name) = Capacity - 1

\* C5: a create_item call either returns NULL and leaves every block as it
\* was, or returns a block that was not live, is live now, and holds the id,
\* the (possibly truncated) name and the value that were passed; no other
\* block changes.
C5_CreateTwoOutcomes ==
    [][ApiCall("create_item") =>
          LET p == last_call'.ptr
          IN  IF p = NULL
              THEN status' = status /\ mem' = mem
              ELSE /\ p \in Addr
                   /\ status[p] # "live"
                   /\ status'[p] = "live"
                   /\ mem'[p].id = last_call'.id
                   /\ CStr(mem'[p].name) = Prefix(last_call'.name, Capacity - 1)
                   /\ mem'[p].value = last_call'.value
                   /\ \A a \in Addr \ {p} :
                          status'[a] = status[a] /\ mem'[a] = mem[a]]_vars

\* C5 witness: a call succeeded beside an older live record, a value and id
\* other than what an unset block holds
C5_Witness ==
    /\ last_call.op = "create_item"
    /\ last_call.ptr = 2
    /\ status[1] = "live"
    /\ status[2] = "live"
    /\ mem[2].value = 170
    /\ mem[2].id = INT_MIN

\* C6: when main has returned (from a run in which nothing undefined
\* happened), no Record created by create_item is still live and none was
\* released twice.
C6_AllReleasedAtExit ==
    (pc = "done" /\ fault \in {"none", "bad_free"}) =>
        (\A a \in Addr : status[a] # "live") /\ fault # "bad_free"

\* C7: print_item(NULL) and free_item(NULL) change no block, write nothing
\* and raise no fault.
C7_NullNoOp ==
    [][((ApiCall("print_item") \/ ApiCall("free_item")) /\ last_call'.ptr = NULL) =>
          /\ status' = status
          /\ mem' = mem
          /\ stdout' = stdout
          /\ fault' = "none"]_vars

\* C7 witness: a NULL handle was printed or released while a record was live
C7_Witness ==
    /\ last_call.op \in {"print_item", "free_item"}
    /\ last_call.ptr = NULL
    /\ Live # {}

\* C8: in no run of main is a NULL handle read through, and print_item and
\* free_item are never applied to a released handle.
C8_NoNullDeref == fault = "none"

\* C9: print_item on a live record leaves every block and its state as it
\* was, writes one line, and that line is the one every earlier print_item of
\* the same record wrote.
C9_PrintRepeatable ==
    [][\A p \in Addr :
          (ApiCall("print_item") /\ last_call'.ptr = p /\ status[p] = "live") =>
              /\ status' = status
              /\ mem' = mem
              /\ fault' = fault
              /\ Len(stdout') = Len(stdout) + 1
              /\ Len(printed'[p]) = Len(printed[p]) + 1
              /\ \A i \in 1..Len(printed'[p]) :
                     printed'[p][i] = stdout'[Len(stdout')]]_vars

\* C9 witness: a live record has been printed three times
C9_Witness ==
    \E p \in Addr : status[p] = "live" /\ Len(printed[p]) >= 3

====
